---------------------------- MODULE Spec2Model ----------------------------
(***************************************************************************)
(* Logex (src/log_monitor.py): a log monitor that follows log files,       *)
(* matches every new line against the configured patterns, sends alerts    *)
(* on the configured channels and checkpoints the last line per file.      *)
(*                                                                         *)
(* Text is modelled as sequences of one-character strings.  The regular    *)
(* expressions of the model are the literal ones over the characters       *)
(* below: a letter matches itself regardless of case (re.IGNORECASE), ","  *)
(* and " " match themselves, and a pattern holding "(" is one that         *)
(* re.search refuses to compile (an unterminated group: re.error).         *)
(***************************************************************************)
EXTENDS Integers, Sequences, FiniteSets, TLC

(***************************************************************************)
(* Bounds of the model.                                                    *)
(***************************************************************************)
MaxRules == 3
MaxLines == 3

(***************************************************************************)
(* Python dictionaries are functions; d.get(k, default).                   *)
(***************************************************************************)
DictGet(d, k, default) == IF k \in DOMAIN d THEN d[k] ELSE default

(***************************************************************************)
(* str helpers.                                                            *)
(***************************************************************************)
Lower(c) == IF c = "A" THEN "a" ELSE IF c = "B" THEN "b" ELSE c

\* str.split(","): k commas give k+1 pieces, the empty string gives [""].
SplitComma(s) ==
    LET RECURSIVE go(_, _, _)
        go(i, cur, acc) ==
            IF i > Len(s) THEN Append(acc, cur)
            ELSE IF s[i] = "," THEN go(i + 1, <<>>, Append(acc, cur))
            ELSE go(i + 1, Append(cur, s[i]), acc)
    IN  go(1, <<>>, <<>>)

\* str.strip(): leading and trailing whitespace removed.
Strip(s) ==
    LET nonblank == {i \in 1..Len(s) : s[i] # " "}
        first == CHOOSE i \in nonblank : \A j \in nonblank : i <= j
        last == CHOOSE i \in nonblank : \A j \in nonblank : i >= j
    IN  IF nonblank = {} THEN <<>> ELSE SubSeq(s, first, last)

(***************************************************************************)
(* re.search(regex, entry, re.IGNORECASE).                                 *)
(***************************************************************************)
\* The pattern does not compile: re.search raises re.error.
Malformed(regex) == \E i \in 1..Len(regex) : regex[i] = "("

\* The compiled (literal) pattern occurs somewhere in the entry.
Found(regex, entry) ==
    \E i \in 0..(Len(entry) - Len(regex)) :
        \A j \in 1..Len(regex) : Lower(regex[j]) = Lower(entry[i + j])

\* The result of the call: it raises, or it says whether there is a match.
Search(regex, entry) ==
    IF Malformed(regex) THEN [raised |-> TRUE, found |-> FALSE]
    ELSE [raised |-> FALSE, found |-> Found(regex, entry)]

(***************************************************************************)
(* LogMonitor._check_for_patterns                                          *)
(***************************************************************************)
\* The inner loop without the strip() of line 172.
AllLoopUntrimmed(entries, log_entry) ==
    LET RECURSIVE go(_)
        go(k) ==
            IF k > Len(entries) THEN [raised |-> FALSE, found |-> TRUE]
            ELSE LET r == Search(entries[k], log_entry)
                 IN  IF r.raised THEN r
                     ELSE IF ~r.found THEN [raised |-> FALSE, found |-> FALSE]
                     ELSE go(k + 1)
    IN  go(1)

\* The inner loop of an "all" pattern over its comma-separated entries:
\* the first entry that does not match ends the loop (break) with
\* match = False; an entry that does not compile raises.
AllLoop(entries, log_entry) ==
    LET RECURSIVE go(_)
        go(k) ==
            IF k > Len(entries) THEN [raised |-> FALSE, found |-> TRUE]
            ELSE LET r == Search(Strip(entries[k]), log_entry)
                 IN  IF r.raised THEN r
                     ELSE IF ~r.found THEN [raised |-> FALSE, found |-> FALSE]
                     ELSE go(k + 1)
    IN  go(1)

\* The iteration were match_type compared without regard to case.
PatternStepAnyCase(pattern, log_entry) ==
    LET match_type == DictGet(pattern, "match_type", "any")
    IN  IF match_type \in {"any", "ANY"}
          THEN Search(DictGet(pattern, "regex", <<>>), log_entry)
        ELSE IF match_type \in {"all", "ALL"}
          THEN AllLoop(SplitComma(DictGet(pattern, "regex", <<>>)), log_entry)
        ELSE [raised |-> FALSE, found |-> FALSE]

\* One iteration of the loop over the patterns: whether the pattern is
\* appended to matched_patterns, or the iteration raises.
PatternStep(pattern, log_entry) ==
    LET match_type == DictGet(pattern, "match_type", "any")
    IN  IF match_type = "any"
          THEN Search(DictGet(pattern, "regex", <<>>), log_entry)
        ELSE IF match_type = "all"
          THEN AllLoop(SplitComma(DictGet(pattern, "regex", <<>>)), log_entry)
        ELSE [raised |-> FALSE, found |-> FALSE]

\* The whole method: the patterns in order; an exception anywhere in the
\* loop leaves the try block and the method returns [].
CheckForPatterns(patterns, log_entry) ==
    LET RECURSIVE go(_, _)
        go(k, matched_patterns) ==
            IF k > Len(patterns) THEN matched_patterns
            ELSE LET r == PatternStep(patterns[k], log_entry)
                 IN  IF r.raised THEN <<>>
                     ELSE IF r.found THEN go(k + 1, Append(matched_patterns, patterns[k]))
                     ELSE go(k + 1, matched_patterns)
    IN  go(1, <<>>)

(***************************************************************************)
(* Alert channels.  env is what the outside world answers to one call of   *)
(* _send_alert: env.email is the outcome of the SMTP session, env.webhook  *)
(* of the webhook POST ("OtherException" is an error that is not a         *)
(* requests.exceptions.RequestException, such as the UnicodeEncodeError of *)
(* a body that is not Latin-1), env.build of json.loads(payload) in the    *)
(* push loop (a JSONDecodeError when the substituted message breaks the    *)
(* JSON text) and env.post[k] of the POST for the k-th device token.       *)
(* Each sender returns the calls it made and whether it raised.            *)
(***************************************************************************)
InList(x, list) == \E i \in 1..Len(list) : list[i] = x

EmptyDict == [k \in {} |-> 0]

\* try: ... except Exception: nothing leaves the method.
SendEmailAlert(cfg, env) ==
    [posts |-> <<[channel |-> "email", to |-> "", outcome |-> env.email]>>,
     raised |-> FALSE]

\* try: ... except requests.exceptions.RequestException: any other error
\* leaves the method.
SendWebhookAlert(cfg, env) ==
    [posts |-> <<[channel |-> "webhook", to |-> "", outcome |-> env.webhook]>>,
     raised |-> env.webhook = "OtherException"]

\* The loop over the device tokens is inside the try block: a POST that
\* raises a RequestException ends the loop, and a payload that json.loads
\* refuses raises out of the method before the first POST.
SendPushAlert(cfg, env) ==
    LET tokens == DictGet(DictGet(cfg, "push", EmptyDict), "device_tokens", <<>>)
        RECURSIVE go(_, _)
        go(k, posts) ==
            IF k > Len(tokens) THEN [posts |-> posts, raised |-> FALSE]
            ELSE IF env.build # "ok" THEN [posts |-> posts, raised |-> TRUE]
            ELSE LET p == [channel |-> "push", to |-> tokens[k],
                           outcome |-> env.post[k]]
                 IN  IF env.post[k] # "ok"
                       THEN [posts |-> Append(posts, p), raised |-> FALSE]
                       ELSE go(k + 1, Append(posts, p))
    IN  go(1, <<>>)

Enabled(cfg, channel) ==
    DictGet(DictGet(cfg, channel, EmptyDict), "enabled", FALSE)

\* A JSON null in the configuration (None): it has no get method.
Null == [null |-> TRUE]

\* alert_methods (line 184): the routing table's list for the pattern's
\* severity; a routing table that is null raises AttributeError.
AlertMethods(cfg, pattern) ==
    LET levels == DictGet(cfg, "severity_levels", EmptyDict)
    IN  IF levels = Null THEN [raised |-> TRUE, methods |-> <<>>]
        ELSE [raised |-> FALSE,
              methods |-> DictGet(levels,
                                  DictGet(pattern, "severity", "medium"), <<>>)]

\* The channels of alert_methods that the four if statements would call.
Due(cfg, pattern) ==
    {c \in {"console", "email", "webhook", "push"} :
        /\ InList(c, AlertMethods(cfg, pattern).methods)
        /\ (c = "console" \/ Enabled(cfg, c))}

\* The statements of the try block of _send_alert, in order: the routing,
\* then console, email, webhook, push; an exception skips what follows.
SendAlertBody(cfg, pattern, env) ==
    LET due == Due(cfg, pattern)
        s0 == [called |-> <<>>, posts |-> <<>>,
               raised |-> AlertMethods(cfg, pattern).raised]
        Step(s, c, r) ==
            IF s.raised \/ c \notin due THEN s
            ELSE [called |-> Append(s.called, c),
                  posts |-> s.posts \o r.posts,
                  raised |-> r.raised]
        s1 == Step(s0, "console", [posts |-> <<>>, raised |-> FALSE])
        s2 == Step(s1, "email", SendEmailAlert(cfg, env))
        s3 == Step(s2, "webhook", SendWebhookAlert(cfg, env))
        s4 == Step(s3, "push", SendPushAlert(cfg, env))
    IN  [due |-> due, called |-> s4.called, posts |-> s4.posts,
         raised |-> s4.raised]

\* _send_alert without its except clause.
SendAlertUncaught(cfg, pattern, env) ==
    LET r == SendAlertBody(cfg, pattern, env)
    IN  [due |-> r.due, called |-> r.called, posts |-> r.posts,
         failed |-> r.raised, raised |-> r.raised]

\* _send_alert: except Exception around the whole body; the error is
\* logged and the method returns normally.
SendAlert(cfg, pattern, env) ==
    LET r == SendAlertBody(cfg, pattern, env)
    IN  [due |-> r.due, called |-> r.called, posts |-> r.posts,
         failed |-> r.raised, raised |-> FALSE]

(***************************************************************************)
(* The monitored world of the model: two log files, the lines that may be  *)
(* appended to them, and the configurations monitor_config.json may hold.  *)
(***************************************************************************)
\* The log files that may exist; the configurations also list f0, a log
\* file that does not exist.
Sources == {"f1", "f2"}

Lines == {<<"a">>, <<"b">>}

HighRule == [name |-> "high-a", regex |-> <<"a">>, match_type |-> "any",
             severity |-> "high"]

\* A pattern with an alert_methods list of its own, as the pattern of the
\* default configuration has (lines 62-69).
LowRule == [name |-> "low-a", regex |-> <<"a">>, match_type |-> "all",
            severity |-> "low", alert_methods |-> <<"console">>]

\* A pattern without match_type.
OtherRule == [name |-> "b", regex |-> <<"b">>, severity |-> "high"]

\* A pattern whose match_type is spelt in capitals.
ShoutRule == [name |-> "shout-b", regex |-> <<"b">>, match_type |-> "ANY",
              severity |-> "high"]

BaseConfig ==
    [log_files |-> <<"f0", "f1", "f2">>,
     patterns |-> <<HighRule, LowRule>>,
     email |-> [enabled |-> TRUE],
     webhook |-> [enabled |-> TRUE],
     push |-> [enabled |-> TRUE, device_tokens |-> <<"token1", "token2">>],
     severity_levels |-> [high |-> <<"console", "webhook", "push">>,
                          low |-> <<"email">>]]

NewConfig ==
    [log_files |-> <<"f0", "f1", "f2">>,
     patterns |-> <<OtherRule, ShoutRule>>,
     email |-> [enabled |-> FALSE],
     webhook |-> [enabled |-> TRUE],
     push |-> [enabled |-> FALSE, device_tokens |-> <<"token1">>],
     severity_levels |-> [high |-> <<"webhook">>]]

\* A configuration file whose routing table is null.
NullRoutingConfig ==
    [log_files |-> <<"f0", "f1", "f2">>,
     patterns |-> <<HighRule>>,
     webhook |-> [enabled |-> TRUE],
     severity_levels |-> Null]

\* What _load_config may return: {} for a file it cannot read or parse.
Configs == {BaseConfig, NewConfig, NullRoutingConfig, EmptyDict}

\* What the outside world may answer to the calls of one _send_alert.
Envs ==
    [email : {"ok", "Exception"},
     webhook : {"ok", "RequestException", "OtherException"},
     build : {"ok", "JSONDecodeError"},
     post : [1..2 -> {"ok", "RequestException"}]]

\* The answers that differ in a call the alert for this pattern may make.
EnvsFor(cfg, pattern) ==
    LET due == Due(cfg, pattern)
    IN  {e \in Envs :
            /\ "email" \notin due => e.email = "ok"
            /\ "webhook" \notin due => e.webhook = "ok"
            /\ "push" \notin due =>
                  e.build = "ok" /\ \A k \in DOMAIN e.post : e.post[k] = "ok"}

CONFIG_FILE_NAME == "monitor_config.json"

\* The src_path of the events the observer of the directory '.' delivers.
EventPaths == {"monitor_config.json", "./monitor_config.json"}

NoStop == [kind |-> "none", source |-> "", index |-> 0]

VARIABLES
    config,        \* config_manager.config
    stateFile,     \* the content of monitor_state.json: source -> last_line
    state,         \* state_manager.state: source -> last_line
    files,         \* the lines of each log file
    present,       \* the log files that exist
    running,       \* the process is alive
    pc,            \* where the monitor thread is in monitor_logs
    log_files,     \* the list the for loop of monitor_logs iterates over
    fileIdx,       \* the index of log_file_path in that list
    handle,        \* how many lines of the file lie before the read offset
    current_line,  \* the local variable of monitor_logs
    line,          \* the line readline returned last
    matched,       \* the list _check_for_patterns returned for that line
    alertIdx,      \* the next pattern of that list to alert for
    alerts,        \* what the calls of _send_alert for the line did
    strayed,       \* an exception left _process_log_entry
    restored,      \* per source opened in this run, the position it started
                   \* from and the lines the file had then
    evalCount,     \* per line of each file, how often it was matched
    lastStop,      \* what the last interrupt of the process left behind
    flush,         \* how the calls of save_state of this run have ended
    evRules, evLine, evOut,  \* _check_for_patterns on its own: inputs, results
    loopPatterns,  \* the list the for statement of line 164 iterates over
    loopIdx,       \* the index of pattern in that list
    loopMatched,   \* matched_patterns
    loopSeen,      \* the patterns the loop has tried on the entry so far
    loopStart,     \* the configuration the loop started under, for the
                   \* line that is being processed
    events,        \* the records ReadEventLog returned last
    eventIdx       \* the index of event in that list

threadVars == <<pc, log_files, fileIdx, handle, current_line, line, matched,
                alertIdx, alerts, strayed, restored>>

evalVars == <<evRules, evLine, evOut>>

loopVars == <<loopPatterns, loopIdx, loopMatched, loopSeen, loopStart>>

winVars == <<events, eventIdx>>

otherVars == <<evalVars, loopVars, winVars>>

vars == <<config, stateFile, state, files, present, running, threadVars,
          evalCount, lastStop, flush, otherVars>>

\* The source the monitor thread is at.
log_file_path == log_files[fileIdx]

Following(s) ==
    running /\ pc \in {"read", "alert", "save"} /\ log_file_path = s

\* The lines of all the log files together.
TotalLines == Len(files["f1"]) + Len(files["f2"])

\* Nothing runs yet: no process, no thread, no line seen.
Stopped ==
    /\ stateFile = EmptyDict
    /\ state = EmptyDict
    /\ files = [s \in Sources |-> <<>>]
    /\ running = FALSE
    /\ pc = "off"
    /\ log_files = <<>>
    /\ fileIdx = 0
    /\ handle = 0
    /\ current_line = 0
    /\ line = <<>>
    /\ matched = <<>>
    /\ alertIdx = 0
    /\ alerts = <<>>
    /\ strayed = FALSE
    /\ restored = EmptyDict
    /\ evalCount = [s \in Sources |-> <<>>]
    /\ lastStop = NoStop
    /\ flush = "none"
    /\ loopPatterns = <<>>
    /\ loopIdx = 0
    /\ loopMatched = <<>>
    /\ loopSeen = <<>>
    /\ loopStart = EmptyDict
    /\ events = <<>>
    /\ eventIdx = 0

Init ==
    /\ config \in Configs
    /\ present \in {Sources, {"f2"}}
    /\ Stopped
    /\ evRules = <<>>
    /\ evLine = <<>>
    /\ evOut = <<>>

(***************************************************************************)
(* main(): the managers are built and the monitor thread is started.       *)
(* StateManager.__init__ calls _create_state, which opens the state file   *)
(* for writing and dumps {} into it; when the write fails the file keeps   *)
(* its content and the state in memory is {} all the same.  Monitoring     *)
(* starts only with a non-empty configuration.                             *)
(***************************************************************************)
CreateState(written) == IF written THEN EmptyDict ELSE stateFile

Start ==
    /\ ~running
    /\ config # EmptyDict
    /\ \E failed \in BOOLEAN : stateFile' = CreateState(~failed)
    /\ state' = EmptyDict
    /\ running' = TRUE
    /\ log_files' = DictGet(config, "log_files", <<>>)
    /\ fileIdx' = 1
    /\ pc' = IF DictGet(config, "log_files", <<>>) = <<>> THEN "end" ELSE "open"
    /\ restored' = EmptyDict
    /\ strayed' = FALSE
    /\ flush' = "none"
    /\ UNCHANGED <<config, files, present, handle, current_line, line, matched,
                   alertIdx, alerts, evalCount, lastStop, otherVars>>

\* The for loop of monitor_logs goes on to the next log file, if any.
NextFile ==
    /\ fileIdx' = fileIdx + 1
    /\ pc' = IF fileIdx + 1 > Len(log_files) THEN "end" ELSE "open"

\* Lines 254-260: the state entry of the file is created when missing, the
\* file is opened and its offset moved to the end; a missing file is
\* logged and the loop goes on.
OpenSource ==
    /\ running
    /\ pc = "open"
    /\ LET s == log_file_path
           st == IF s \in DOMAIN state THEN state ELSE state @@ (s :> 0)
       IN  /\ state' = st
           /\ IF s \notin present
                THEN /\ NextFile
                     /\ UNCHANGED <<handle, current_line, restored>>
                ELSE /\ handle' = Len(files[s])
                     /\ current_line' = st[s]
                     /\ restored' = (s :> [position |-> st[s],
                                            offset |-> Len(files[s])])
                                      @@ restored
                     /\ pc' = "read"
                     /\ UNCHANGED fileIdx
    /\ UNCHANGED <<config, stateFile, files, present, running, log_files,
                   line, matched, alertIdx, alerts, strayed, evalCount,
                   lastStop, flush, otherVars>>

\* Lines 262-268 up to the call of _check_for_patterns: a line is read,
\* counted, and matched against the patterns of the current configuration.
ReadLine ==
    /\ running
    /\ pc = "read"
    /\ handle < Len(files[log_file_path])
    /\ LET s == log_file_path
           l == files[s][handle + 1]
           fresh == current_line + 1 > state[s]
           m == IF fresh
                  THEN CheckForPatterns(DictGet(config, "patterns", <<>>), l)
                  ELSE <<>>
       IN  /\ line' = l
           /\ handle' = handle + 1
           /\ current_line' = current_line + 1
           /\ matched' = m
           /\ evalCount' = IF fresh
                             THEN [evalCount EXCEPT ![s][handle + 1] = @ + 1]
                             ELSE evalCount
           /\ pc' = IF m = <<>> THEN "save" ELSE "alert"
    /\ alertIdx' = 1
    /\ alerts' = <<>>
    /\ loopStart' = config
    /\ UNCHANGED <<config, stateFile, state, files, present, running,
                   log_files, fileIdx, strayed, restored, lastStop, flush,
                   evalVars, winVars, loopPatterns, loopIdx, loopMatched, loopSeen>>

\* Lines 263-265: nothing to read; the thread sleeps a second and retries.
Poll ==
    /\ running
    /\ pc = "read"
    /\ handle = Len(files[log_file_path])
    /\ UNCHANGED vars

\* One iteration of the loop of _process_log_entry: _send_alert for the
\* next matched pattern.  An exception out of it would leave the while
\* loop and be caught at line 273, the for loop going on to the next file.
SendAlertStep ==
    /\ running
    /\ pc = "alert"
    /\ \E env \in EnvsFor(config, matched[alertIdx]) :
         LET r == SendAlert(config, matched[alertIdx], env)
         IN  /\ alerts' = Append(alerts, r)
             /\ IF r.raised
                  THEN /\ strayed' = TRUE
                       /\ NextFile
                       /\ UNCHANGED alertIdx
                  ELSE /\ alertIdx' = alertIdx + 1
                       /\ pc' = IF alertIdx + 1 > Len(matched)
                                  THEN "save" ELSE "alert"
                       /\ UNCHANGED <<strayed, fileIdx>>
    /\ UNCHANGED <<config, stateFile, state, files, present, running,
                   log_files, handle, current_line, line, matched, restored,
                   evalCount, lastStop, flush, otherVars>>

\* StateManager.save_state: the whole state is dumped into the state file;
\* a failed write is logged and the file keeps its content.
SaveState(st, written) == IF written THEN st ELSE stateFile

\* Lines 269-270 were they inside the if of line 267 and run only for a
\* line that matched a pattern.
SaveStepOnMatch ==
    /\ running
    /\ pc = "save"
    /\ state' = IF matched = <<>> THEN state
                ELSE [state EXCEPT ![log_file_path] = current_line]
    /\ \E failed \in BOOLEAN :
         /\ stateFile' = SaveState(state', ~failed /\ matched # <<>>)
         /\ flush' = IF matched = <<>> THEN flush
                     ELSE IF failed THEN "failed"
                     ELSE IF flush = "failed" THEN "recovered" ELSE "ok"
    /\ pc' = "read"
    /\ alertIdx' = 0
    /\ alerts' = <<>>
    /\ loopStart' = EmptyDict
    /\ UNCHANGED <<config, files, present, running, log_files, fileIdx,
                   handle, current_line, line, matched, strayed, restored,
                   evalCount, lastStop, evalVars, winVars, loopPatterns, loopIdx, loopMatched, loopSeen>>

\* save_state without its except clause: the error of a failed write
\* leaves the while loop and is caught at line 273.
SaveStepRaising ==
    /\ running
    /\ pc = "save"
    /\ state' = [state EXCEPT ![log_file_path] = current_line]
    /\ \E failed \in BOOLEAN :
         /\ stateFile' = SaveState(state', ~failed)
         /\ flush' = IF failed THEN "failed"
                     ELSE IF flush = "failed" THEN "recovered" ELSE "ok"
         /\ IF failed THEN NextFile ELSE pc' = "read" /\ UNCHANGED fileIdx
    /\ alertIdx' = 0
    /\ alerts' = <<>>
    /\ loopStart' = EmptyDict
    /\ UNCHANGED <<config, files, present, running, log_files,
                   handle, current_line, line, matched, strayed, restored,
                   evalCount, lastStop, evalVars, winVars, loopPatterns,
                   loopIdx, loopMatched, loopSeen>>

\* Lines 269-270: the position is set in memory and the state is saved.
SaveStep ==
    /\ running
    /\ pc = "save"
    /\ state' = [state EXCEPT ![log_file_path] = current_line]
    /\ \E failed \in BOOLEAN :
         /\ stateFile' = SaveState(state', ~failed)
         /\ flush' = IF failed THEN "failed"
                     ELSE IF flush = "failed" THEN "recovered" ELSE "ok"
    /\ pc' = "read"
    /\ alertIdx' = 0
    /\ alerts' = <<>>
    /\ loopStart' = EmptyDict
    /\ UNCHANGED <<config, files, present, running, log_files, fileIdx,
                   handle, current_line, line, matched, strayed, restored,
                   evalCount, lastStop, evalVars, winVars, loopPatterns, loopIdx, loopMatched, loopSeen>>

\* Some other program appends a line to a log file.
AppendLine ==
    /\ \E s \in present, l \in Lines :
         /\ TotalLines < MaxLines
         /\ files' = [files EXCEPT ![s] = Append(@, l)]
         /\ evalCount' = [evalCount EXCEPT ![s] = Append(@, 0)]
    /\ UNCHANGED <<config, stateFile, state, present, running,
                   threadVars, lastStop, flush, otherVars>>

\* What an interrupt at this moment leaves behind.  "clean": the thread was
\* idle at the end of its file with the position of the file checkpointed
\* (index: the lines of the file so far).  "pending": a line was read and
\* matched and its checkpoint not yet written (index: that line).
StopRecord ==
    IF pc \notin {"read", "alert", "save"} THEN NoStop
    ELSE IF /\ pc = "read"
            /\ handle = Len(files[log_file_path])
            /\ log_file_path \in DOMAIN stateFile
            /\ stateFile[log_file_path] = current_line
      THEN [kind |-> "clean", source |-> log_file_path, index |-> handle]
    ELSE IF pc \in {"alert", "save"} /\ matched # <<>>
      THEN [kind |-> "pending", source |-> log_file_path, index |-> handle]
    ELSE [kind |-> "other", source |-> log_file_path, index |-> 0]

\* The process ends (KeyboardInterrupt in main, lines 349-352, or a kill):
\* the monitor thread is a daemon and ends with it wherever it is; what is
\* in memory is gone, the state file stays.
Interrupt ==
    /\ running
    /\ running' = FALSE
    /\ lastStop' = StopRecord
    /\ state' = EmptyDict
    /\ pc' = "off"
    /\ log_files' = <<>>
    /\ fileIdx' = 0
    /\ handle' = 0
    /\ current_line' = 0
    /\ line' = <<>>
    /\ matched' = <<>>
    /\ alertIdx' = 0
    /\ alerts' = <<>>
    /\ strayed' = FALSE
    /\ restored' = EmptyDict
    /\ flush' = "none"
    /\ loopStart' = EmptyDict
    /\ UNCHANGED <<config, stateFile, files, present, evalCount,
                   evalVars, winVars, loopPatterns, loopIdx, loopMatched, loopSeen>>

\* ConfigFileChangeHandler.on_modified: an event of the watched directory
\* whose src_path is the name of the configuration file makes the handler
\* load the file again, and the new dictionary replaces
\* config_manager.config; any other event is ignored.
OnModified ==
    /\ running
    /\ \E src_path \in EventPaths :
         IF src_path = CONFIG_FILE_NAME
           THEN \E c \in Configs \ {config} : config' = c
           ELSE UNCHANGED config
    /\ UNCHANGED <<stateFile, state, files, present, running, threadVars,
                   evalCount, lastStop, flush, otherVars>>

Next ==
    \/ Start
    \/ OpenSource
    \/ ReadLine
    \/ Poll
    \/ SendAlertStep
    \/ SaveStep
    \/ AppendLine
    \/ Interrupt
    \/ OnModified

Spec == Init /\ [][Next]_vars

(***************************************************************************)
(* _check_for_patterns on its own: the method applied, twice, to a line    *)
(* and a pattern list drawn from the patterns and lines below.             *)
(***************************************************************************)
EvalRegexes ==
    {<<>>, <<"a">>, <<"a", ",", " ", "B">>, <<"(">>, <<"b", ",", "(">>}

EvalRules ==
    {[match_type |-> t, regex |-> r] : t \in {"any", "all"}, r \in EvalRegexes}
    \cup {[regex |-> <<"a">>], [match_type |-> "all"]}

EvalLines ==
    {<<>>, <<"A">>, <<"b">>, <<"b", " ", "a">>, <<"a", ",", " ", "b">>}

RuleLists == UNION {[1..n -> EvalRules] : n \in 0..MaxRules}

InitEval ==
    /\ config = BaseConfig
    /\ present = Sources
    /\ Stopped
    /\ evRules \in RuleLists
    /\ evLine \in EvalLines
    /\ evOut = <<>>

Evaluate ==
    /\ evOut = <<>>
    /\ evOut' = <<CheckForPatterns(evRules, evLine)>>
    /\ UNCHANGED <<config, stateFile, state, files, present, running,
                   threadVars, evalCount, lastStop, flush, evRules, evLine,
                   loopVars, winVars>>

EvaluateAgain ==
    /\ Len(evOut) = 1
    /\ evOut' = Append(evOut, CheckForPatterns(evRules, evLine))
    /\ UNCHANGED <<config, stateFile, state, files, present, running,
                   threadVars, evalCount, lastStop, flush, evRules, evLine,
                   loopVars, winVars>>

NextEval == Evaluate \/ EvaluateAgain

SpecEval == InitEval /\ [][NextEval]_vars

(***************************************************************************)
(* The loop of _check_for_patterns step by step, with the observer thread  *)
(* replacing config_manager.config between any two of its iterations.      *)
(* The monitor thread follows f1 and has read an entry; pc is "match"      *)
(* before the call at line 268, "loop" inside the for statement and        *)
(* "return" when the method has returned.                                  *)
(***************************************************************************)
\* A loop that asked the configuration for its patterns at every iteration.
LoopListReread(captured, cfg) == DictGet(cfg, "patterns", <<>>)

\* The list a for statement iterates over is the object its expression gave
\* when the loop was entered, whatever config_manager.config is by now.
LoopList(captured, cfg) == captured

InitReload ==
    /\ config \in Configs \ {EmptyDict}
    /\ present = Sources
    /\ stateFile = EmptyDict
    /\ state = [s \in {"f0", "f1"} |-> 0]
    /\ \E l \in EvalLines :
         /\ files = [s \in Sources |-> IF s = "f1" THEN <<l>> ELSE <<>>]
         /\ line = l
    /\ running = TRUE
    /\ pc = "match"
    /\ log_files = <<"f0", "f1", "f2">>
    /\ fileIdx = 2
    /\ handle = 1
    /\ current_line = 1
    /\ matched = <<>>
    /\ alertIdx = 0
    /\ alerts = <<>>
    /\ strayed = FALSE
    /\ restored = ("f1" :> [position |-> 0, offset |-> 0])
    /\ evalCount = [s \in Sources |-> IF s = "f1" THEN <<0>> ELSE <<>>]
    /\ lastStop = NoStop
    /\ flush = "none"
    /\ evRules = <<>>
    /\ evLine = <<>>
    /\ evOut = <<>>
    /\ loopPatterns = <<>>
    /\ loopIdx = 0
    /\ loopMatched = <<>>
    /\ loopSeen = <<>>
    /\ loopStart = EmptyDict
    /\ events = <<>>
    /\ eventIdx = 0

\* Line 164: the expression of the for statement is evaluated.
BeginCheck ==
    /\ pc = "match"
    /\ pc' = "loop"
    /\ loopPatterns' = DictGet(config, "patterns", <<>>)
    /\ loopIdx' = 1
    /\ loopMatched' = <<>>
    /\ loopSeen' = <<>>
    /\ loopStart' = config
    /\ UNCHANGED <<config, stateFile, state, files, present, running,
                   log_files, fileIdx, handle, current_line, line, matched,
                   alertIdx, alerts, strayed, restored, evalCount, lastStop,
                   flush, evalVars, winVars>>

\* Lines 165-176: one iteration; an exception ends the method with [].
CheckStep ==
    /\ pc = "loop"
    /\ loopIdx <= Len(LoopList(loopPatterns, config))
    /\ LET pattern == LoopList(loopPatterns, config)[loopIdx]
           r == PatternStep(pattern, line)
       IN  /\ loopSeen' = Append(loopSeen, pattern)
           /\ loopIdx' = loopIdx + 1
           /\ IF r.raised
                THEN /\ pc' = "return"
                     /\ matched' = <<>>
                     /\ UNCHANGED loopMatched
                ELSE /\ loopMatched' = IF r.found THEN Append(loopMatched, pattern)
                                       ELSE loopMatched
                     /\ UNCHANGED <<pc, matched>>
    /\ UNCHANGED <<config, stateFile, state, files, present, running,
                   log_files, fileIdx, handle, current_line, line,
                   alertIdx, alerts, strayed, restored, evalCount, lastStop,
                   flush, evalVars, winVars, loopPatterns, loopStart>>

\* Line 177: the list is exhausted and matched_patterns is returned.
EndCheck ==
    /\ pc = "loop"
    /\ loopIdx > Len(LoopList(loopPatterns, config))
    /\ pc' = "return"
    /\ matched' = loopMatched
    /\ UNCHANGED <<config, stateFile, state, files, present, running,
                   log_files, fileIdx, handle, current_line, line,
                   alertIdx, alerts, strayed, restored, evalCount, lastStop,
                   flush, otherVars>>

NextReload ==
    \/ BeginCheck
    \/ CheckStep
    \/ EndCheck
    \/ OnModified

SpecReload == InitReload /\ [][NextReload]_vars

(***************************************************************************)
(* The program on Windows: create_log_monitor returns a WindowsLogMonitor  *)
(* and the log files are event logs.  The k-th record of an event log has  *)
(* RecordNumber k and the text files[s][k] as its only string insert.      *)
(* The reads are sequential and backwards (line 294): the first one starts *)
(* at the newest record of the log, every read returns some records in     *)
(* descending order and leaves the read position below them, and a read    *)
(* below the oldest record returns nothing.  handle is the number of       *)
(* records below the read position, -1 before the first read.              *)
(***************************************************************************)
MaxBatch == 2

\* str(event.StringInserts) for a tuple of one string: ('text',)
FormatInserts(text) == <<"(", "'">> \o text \o <<"'", ",", ")">>

\* main() as Start, with the thread entering WindowsLogMonitor.monitor_logs.
StartWin ==
    /\ ~running
    /\ config # EmptyDict
    /\ \E failed \in BOOLEAN : stateFile' = CreateState(~failed)
    /\ state' = EmptyDict
    /\ running' = TRUE
    /\ log_files' = DictGet(config, "log_files", <<>>)
    /\ fileIdx' = 1
    /\ pc' = IF DictGet(config, "log_files", <<>>) = <<>> THEN "end" ELSE "wopen"
    /\ restored' = EmptyDict
    /\ strayed' = FALSE
    /\ flush' = "none"
    /\ UNCHANGED <<config, files, present, handle, current_line, line, matched,
                   alertIdx, alerts, evalCount, lastStop, otherVars>>

\* The for loop of line 289 goes on to the next event log, if any.
NextFileWin ==
    /\ fileIdx' = fileIdx + 1
    /\ pc' = IF fileIdx + 1 > Len(log_files) THEN "end" ELSE "wopen"

\* Lines 290-294: the state entry is created when missing and the event log
\* is opened; a log that cannot be opened is logged and the loop goes on.
WinOpen ==
    /\ running
    /\ pc = "wopen"
    /\ LET s == log_file_path
           st == IF s \in DOMAIN state THEN state ELSE state @@ (s :> 0)
       IN  /\ state' = st
           /\ IF s \notin present
                THEN /\ NextFileWin
                     /\ UNCHANGED <<handle, restored>>
                ELSE /\ handle' = -1
                     /\ restored' = (s :> [position |-> st[s],
                                            offset |-> Len(files[s])])
                                      @@ restored
                     /\ pc' = "wread"
                     /\ UNCHANGED fileIdx
    /\ UNCHANGED <<config, stateFile, files, present, running, log_files,
                   current_line, line, matched, alertIdx, alerts, strayed,
                   evalCount, lastStop, flush, otherVars>>

\* The number of records below the read position of the next read.
ReadFrom == IF handle = -1 THEN Len(files[log_file_path]) ELSE handle

\* Line 296: ReadEventLog returns the next records, newest first.
WinRead ==
    /\ running
    /\ pc = "wread"
    /\ ReadFrom > 0
    /\ \E n \in 1..MaxBatch :
         /\ n <= ReadFrom
         /\ events' = [k \in 1..n |->
                          [RecordNumber |-> ReadFrom - k + 1,
                           StringInserts |-> files[log_file_path][ReadFrom - k + 1]]]
         /\ handle' = ReadFrom - n
    /\ eventIdx' = 1
    /\ pc' = "wevent"
    /\ UNCHANGED <<config, stateFile, state, files, present, running,
                   log_files, fileIdx, current_line, line, matched, alertIdx,
                   alerts, strayed, restored, evalCount, lastStop, flush,
                   evalVars, loopVars>>

\* Lines 297-299: no records; the thread sleeps a second and retries.
WinPoll ==
    /\ running
    /\ pc = "wread"
    /\ ReadFrom = 0
    /\ UNCHANGED vars

\* After the unit of events[eventIdx]: the next event of the list, or the
\* save_state of line 305 after the last one.
AfterEvent ==
    IF eventIdx < Len(events)
      THEN eventIdx' = eventIdx + 1 /\ pc' = "wevent"
      ELSE eventIdx' = eventIdx /\ pc' = "wsave"

\* Lines 300-304 up to the call of _check_for_patterns: the record number
\* of the event is put into the state, the event is turned into text and
\* matched against the patterns.
WinEvent ==
    /\ running
    /\ pc = "wevent"
    /\ LET event == events[eventIdx]
           formatted_log == FormatInserts(event.StringInserts)
           m == CheckForPatterns(DictGet(config, "patterns", <<>>), formatted_log)
       IN  /\ current_line' = event.RecordNumber
           /\ state' = [state EXCEPT ![log_file_path] = event.RecordNumber]
           /\ line' = formatted_log
           /\ matched' = m
           /\ evalCount' = [evalCount EXCEPT
                               ![log_file_path][event.RecordNumber] = @ + 1]
           /\ IF m = <<>> THEN AfterEvent
                          ELSE pc' = "walert" /\ UNCHANGED eventIdx
    /\ alertIdx' = 1
    /\ alerts' = <<>>
    /\ UNCHANGED <<config, stateFile, files, present, running, log_files,
                   fileIdx, handle, strayed, restored, lastStop, flush,
                   evalVars, loopVars, events>>

\* One iteration of the loop of _process_log_entry (lines 283-284); an
\* exception out of it would be caught at line 306.
WinAlertStep ==
    /\ running
    /\ pc = "walert"
    /\ \E env \in EnvsFor(config, matched[alertIdx]) :
         LET r == SendAlert(config, matched[alertIdx], env)
         IN  /\ alerts' = Append(alerts, r)
             /\ IF r.raised
                  THEN /\ strayed' = TRUE
                       /\ NextFileWin
                       /\ UNCHANGED <<alertIdx, eventIdx>>
                  ELSE /\ alertIdx' = alertIdx + 1
                       /\ IF alertIdx + 1 > Len(matched)
                            THEN AfterEvent
                            ELSE UNCHANGED <<pc, eventIdx>>
                       /\ UNCHANGED <<strayed, fileIdx>>
    /\ UNCHANGED <<config, stateFile, state, files, present, running,
                   log_files, handle, current_line, line, matched, restored,
                   evalCount, lastStop, flush, evalVars, loopVars, events>>

\* Line 305: the state is saved after the last event of the list.
WinSave ==
    /\ running
    /\ pc = "wsave"
    /\ \E failed \in BOOLEAN :
         /\ stateFile' = SaveState(state, ~failed)
         /\ flush' = IF failed THEN "failed"
                     ELSE IF flush = "failed" THEN "recovered" ELSE "ok"
    /\ pc' = "wread"
    /\ alertIdx' = 0
    /\ alerts' = <<>>
    /\ UNCHANGED <<config, state, files, present, running, log_files, fileIdx,
                   handle, current_line, line, matched, strayed, restored,
                   evalCount, lastStop, otherVars>>

NextWin ==
    \/ StartWin
    \/ WinOpen
    \/ WinRead
    \/ WinPoll
    \/ WinEvent
    \/ WinAlertStep
    \/ WinSave
    \/ AppendLine
    \/ OnModified

SpecWin == Init /\ [][NextWin]_vars

(***************************************************************************)
(* The monitor thread is scheduled: a step of monitor_logs that can be     *)
(* taken is taken sooner or later.  Nothing is assumed of the outside      *)
(* world (appended lines, interrupts, configuration changes).              *)
(***************************************************************************)
FairSpec ==
    /\ Spec
    /\ WF_vars(OpenSource)
    /\ WF_vars(ReadLine)
    /\ WF_vars(SendAlertStep)
    /\ WF_vars(SaveStep)

(***************************************************************************)
(* Properties.                                                             *)
(***************************************************************************)
\* The tailer of source s has nothing left to read.
IdleAt(s) == Following(s) /\ pc = "read" /\ handle = Len(files[s])

\* C1: after a clean stop with source s checkpointed at position P, the
\* restart restores position P for s (the position the state manager holds
\* after startup is the persisted one), and once the tailer is idle again
\* every line appended since the stop, also while the process was down,
\* has been matched exactly once, no line ever more than once.
C1_NoGap ==
    /\ \A s \in Sources : \A i \in 1..Len(files[s]) : evalCount[s][i] <= 1
    /\ lastStop.kind = "clean" /\ IdleAt(lastStop.source) =>
          \A i \in (lastStop.index + 1)..Len(files[lastStop.source]) :
              evalCount[lastStop.source][i] = 1

C1_ResumeAtCheckpoint ==
    [][/\ lastStop.kind = "clean" /\ ~running /\ running' =>
            DictGet(state', lastStop.source, 0)
                = DictGet(stateFile, lastStop.source, 0)
       /\ C1_NoGap']_vars

\* C2: a line that was read and matched when the process was interrupted,
\* its checkpoint not yet written, is matched again after the restart: at
\* the latest when the tailer of its source is idle again.
C2_PendingLineReevaluated ==
    lastStop.kind = "pending" /\ IdleAt(lastStop.source) =>
        evalCount[lastStop.source][lastStop.index] >= 2

\* C3: every configured source that can be read gets its tailer: while the
\* process runs, the source is followed sooner or later, whatever the
\* tailers of the other sources do.
C3_EverySourceFollowed ==
    \A s \in Sources :
        [](running /\ s \in present /\ InList(s, log_files)
              => <>(Following(s) \/ ~running))

\* C5: in every dispatch, each channel that the routing resolves and the
\* configuration enables has its sender called, whatever the other
\* channels' senders raise.
C5_ChannelIsolation ==
    \A n \in 1..Len(alerts) :
        \A c \in alerts[n].due : InList(c, alerts[n].called)

\* The device tokens the dispatch made a POST for.
PostedTokens(alert) ==
    {alert.posts[k].to :
        k \in {j \in 1..Len(alert.posts) : alert.posts[j].channel = "push"}}

PushFailed(alert) ==
    \E k \in 1..Len(alert.posts) :
        alert.posts[k].channel = "push" /\ alert.posts[k].outcome # "ok"

\* C6: a push delivery in which the POST for one token failed has still
\* made one POST for every configured device token.
C6_EveryTokenPosted ==
    [][running /\ pc = "alert" /\ Len(alerts') = Len(alerts) + 1
         /\ PushFailed(alerts'[Len(alerts')])
       => LET tokens == config.push.device_tokens
          IN  PostedTokens(alerts'[Len(alerts')])
                  = {tokens[k] : k \in 1..Len(tokens)}]_vars

\* C7: no call of _send_alert raises, whatever the channels do: no
\* exception leaves _process_log_entry, every matched pattern of the line
\* has had its call when the thread is at the position update, and while
\* it is not there yet the next matched pattern is due.
C7_DispatchNeverPropagates ==
    /\ ~strayed
    /\ \A n \in 1..Len(alerts) : ~alerts[n].raised
    /\ running /\ pc = "save" => Len(alerts) = Len(matched)
    /\ running /\ pc = "alert" =>
          Len(alerts) < Len(matched) /\ alertIdx = Len(alerts) + 1

\* A line with two matched patterns: the first dispatch failed with an
\* error that left its sender, the second was made all the same, and the
\* thread stands at the position update.
C7_Witness ==
    /\ running
    /\ pc = "save"
    /\ Len(matched) = 2
    /\ Len(alerts) = 2
    /\ alerts[1].failed

\* C11: the dispatch for a matched pattern that carries an alert_methods
\* list goes to the channels of that list and not to those the routing
\* table lists for its severity: every channel called is one of the list,
\* and the console, which needs no enabled flag, is called when listed.
C11_HintsOverrideRouting ==
    \A n \in 1..Len(alerts) :
        "alert_methods" \in DOMAIN matched[n] =>
            /\ \A k \in 1..Len(alerts[n].called) :
                  InList(alerts[n].called[k], matched[n].alert_methods)
            /\ InList("console", matched[n].alert_methods)
                  => InList("console", alerts[n].called)

\* The lines source s has received since its tailer opened it.
Received(s) == Len(files[s]) - restored[s].offset

\* C12: once the tailer of a source has processed the N lines the source
\* received while it ran, the position of the source is the position it
\* started from plus N, in memory and, the last write of the state file
\* having gone through, in the file, whether the lines matched or not.
C12_PositionAdvancesByN ==
    \A s \in Sources :
        IdleAt(s) =>
            /\ state[s] = restored[s].position + Received(s)
            /\ flush \in {"ok", "recovered"} =>
                  /\ s \in DOMAIN stateFile
                  /\ stateFile[s] = restored[s].position + Received(s)

\* Two lines received and processed, the last of them matching nothing,
\* and the position written.
C12_Witness ==
    /\ IdleAt("f1")
    /\ Received("f1") = 2
    /\ matched = <<>>
    /\ flush = "ok"
    /\ stateFile["f1"] = 2

\* C14: the interrupt stops the monitor thread at the boundary of a unit:
\* when the process ends, the thread is not between the matching of a line
\* and the write of its checkpoint.
C14_StopAtUnitBoundary ==
    [][running /\ ~running' => pc \notin {"alert", "save"}]_vars

\* The monitor thread is in the loop of _process_log_entry for a unit.
Dispatching == running /\ pc \in {"alert", "walert"}

\* C15: while the alerts of a unit are being sent, they are sent one after
\* the other in the order of the matched patterns, the position of the
\* source in memory has not been advanced to the unit yet, and the position
\* of the unit before it has been written: after a save that went through,
\* the state file holds the position that is in memory.
C15_PerUnitOrdering ==
    Dispatching =>
        /\ Len(alerts) = alertIdx - 1
        /\ alertIdx <= Len(matched)
        /\ DictGet(state, log_file_path, 0) # current_line
        /\ flush \in {"ok", "recovered"} =>
              DictGet(stateFile, log_file_path, 0)
                  = DictGet(state, log_file_path, 0)

\* C16: the position of a source never decreases: not in the state file,
\* not in memory while the process runs, and the position in memory after
\* a start is not below the one the state file held.
C16_PositionsNeverDecrease ==
    [][\A s \in Sources :
          /\ DictGet(stateFile', s, 0) >= DictGet(stateFile, s, 0)
          /\ running /\ running' =>
                DictGet(state', s, 0) >= DictGet(state, s, 0)
          /\ ~running /\ running' =>
                DictGet(state', s, 0) >= DictGet(stateFile, s, 0)]_vars

\* C17: the alerts of a line are routed by the configuration the line was
\* matched under: the channels each dispatch resolves are those that
\* configuration's routing table and enabled flags give for the pattern.
C17_OneSnapshotPerUnit ==
    \A n \in 1..Len(alerts) : alerts[n].due = Due(loopStart, matched[n])

\* The open of a configured source has failed in this run.
OpenFailed ==
    \E x \in DOMAIN state : x \notin present /\ InList(x, log_files)

\* C18: when a configured source could not be opened, every other
\* configured source that can be read is still followed sooner or later,
\* as long as the process runs.
C18_UnreachableSourceIsolated ==
    \A s \in Sources :
        [](running /\ OpenFailed /\ s \in present /\ InList(s, log_files)
              => <>(Following(s) \/ ~running))

\* C19: the step from the position update back to the read loop, whether
\* the write of the state file fails or not: the thread goes on following
\* the source, the position in memory is one more than before, a failed
\* write leaves the state file as it was, and a write that goes through
\* leaves in it the whole state that is in memory.
C19_FailedWriteRecovers ==
    [][running /\ pc = "save" /\ pc' # "save" /\ running' =>
          /\ pc' = "read"
          /\ log_file_path' = log_file_path
          /\ state'[log_file_path] = state[log_file_path] + 1
          /\ flush' = "failed" => stateFile' = stateFile
          /\ flush' \in {"ok", "recovered"} => stateFile' = state']_vars

\* A write failed, the thread went on, and the write for a later line went
\* through: the state file holds the positions that are in memory.
C19_Witness ==
    /\ running
    /\ pc = "read"
    /\ flush = "recovered"
    /\ state[log_file_path] >= 2
    /\ stateFile = state

\* C20: of the patterns a line was matched against, one whose match_type
\* is neither "any" nor "all" is not among the matched ones, and one without
\* match_type is among them exactly when its regex is found in the line;
\* no error leaves the processing of the line, and once the tailer is idle
\* the position has advanced by the lines the source received.
C20_MatchTypeDefaults ==
    /\ ~strayed
    /\ running /\ pc \in {"alert", "save"} =>
          LET patterns == DictGet(loopStart, "patterns", <<>>)
          IN  \A k \in 1..Len(patterns) :
                  IF "match_type" \in DOMAIN patterns[k]
                    THEN patterns[k].match_type \notin {"any", "all"}
                            => ~InList(patterns[k], matched)
                    ELSE InList(patterns[k], matched)
                            <=> Found(patterns[k].regex, line)
    /\ \A s \in Sources :
          IdleAt(s) => state[s] = restored[s].position + Received(s)

\* A line that the regex of both patterns is found in has been processed
\* and its position written: the pattern without match_type matched, the
\* one with match_type "ANY" did not.
C20_Witness ==
    /\ IdleAt("f1")
    /\ Received("f1") = 1
    /\ Found(ShoutRule.regex, line)
    /\ matched = <<OtherRule>>
    /\ flush = "ok"
    /\ stateFile["f1"] = 1

\* The sequence is the first patterns of the configuration, in order.
FirstPatterns(seq, cfg) ==
    LET patterns == DictGet(cfg, "patterns", <<>>)
    IN  /\ Len(seq) <= Len(patterns)
        /\ \A k \in 1..Len(seq) : seq[k] = patterns[k]

\* C13: whenever the configuration is replaced while an entry is being
\* matched, the patterns the entry is tried against are those of one
\* configuration, the one the loop started under or the one that is current
\* now: in the loop they are the first patterns of it, in order, and at the
\* normal return they are all of its patterns.
C13_NoMixedRuleSet ==
    pc \in {"loop", "return"} =>
        \E cfg \in {loopStart, config} :
            /\ FirstPatterns(loopSeen, cfg)
            /\ pc = "return" => Len(loopSeen) = Len(DictGet(cfg, "patterns", <<>>))

\* The configuration was replaced by one with other patterns after the
\* first of two patterns was tried, and the loop has returned.
C13_Witness ==
    /\ pc = "return"
    /\ Len(loopSeen) = 2
    /\ loopStart # config
    /\ ~FirstPatterns(loopSeen, config)

(***************************************************************************)
(* Properties of _check_for_patterns.                                      *)
(***************************************************************************)
IsAll(rule) == DictGet(rule, "match_type", "any") = "all"

IsAny(rule) == DictGet(rule, "match_type", "any") = "any"

\* The regexes of a rule's comma-separated regex field, trimmed.
Entries(rule) ==
    LET parts == SplitComma(DictGet(rule, "regex", <<>>))
    IN  {Strip(parts[k]) : k \in 1..Len(parts)}

\* Some regex the rule gives to re.search does not compile.
HasMalformed(rule) ==
    IF IsAll(rule) THEN \E e \in Entries(rule) : Malformed(e)
    ELSE Malformed(DictGet(rule, "regex", <<>>))

\* C4: with a malformed rule in the list, the result is exactly the
\* well-formed rules that match the line, in order: only the malformed
\* rules are skipped.
C4_OnlyMalformedRuleSkipped ==
    LET Good(rule) ==
            ~HasMalformed(rule) /\ PatternStep(rule, evLine).found
    IN  (\E k \in 1..Len(evRules) : HasMalformed(evRules[k])) =>
            \A n \in 1..Len(evOut) : evOut[n] = SelectSeq(evRules, Good)

\* C8: an ALL rule with an empty or absent regex field is returned for no
\* line.
C8_EmptyAllRuleNeverMatches ==
    \A n \in 1..Len(evOut) : \A k \in 1..Len(evOut[n]) :
        ~(IsAll(evOut[n][k]) /\ DictGet(evOut[n][k], "regex", <<>>) = <<>>)

\* The regexes of a comma-delimited regex field, as they stand.
RegexSet(rule) ==
    LET parts == SplitComma(DictGet(rule, "regex", <<>>))
    IN  {parts[k] : k \in 1..Len(parts)}

\* C9: an ANY rule with a comma-delimited set of regexes is returned iff
\* at least one regex of the set matches the line (lists of rules whose
\* regexes all compile).
C9_AnyRuleMatchesAnyOfSet ==
    (\A k \in 1..Len(evRules) : ~HasMalformed(evRules[k])) =>
        \A n \in 1..Len(evOut) : \A k \in 1..Len(evRules) :
            IsAny(evRules[k]) /\ InList(",", DictGet(evRules[k], "regex", <<>>))
            => (InList(evRules[k], evOut[n])
                  <=> \E e \in RegexSet(evRules[k]) : Found(e, evLine))

\* The rules C10 is about: an ANY rule with one regex, an ALL rule with
\* one or more comma-separated entries, every regex one that compiles.
WellFormed(rule) ==
    /\ {"match_type", "regex"} \subseteq DOMAIN rule
    /\ rule.match_type \in {"any", "all"}
    /\ ~HasMalformed(rule)
    /\ rule.match_type = "any" => ~InList(",", rule.regex)
    /\ rule.match_type = "all" => rule.regex # <<>>

\* What it is for a well-formed rule to match a line.
Matches(rule, entry) ==
    IF rule.match_type = "any" THEN Found(rule.regex, entry)
    ELSE \A e \in Entries(rule) : Found(e, entry)

\* C10: for a list of well-formed rules, each call returns exactly the
\* rules that match the line, in the order of the list and as often as
\* they are in it, and the second call returns what the first returned.
C10_EvaluateExact ==
    LET Hit(rule) == Matches(rule, evLine)
    IN  (\A k \in 1..Len(evRules) : WellFormed(evRules[k])) =>
            /\ \A n \in 1..Len(evOut) : evOut[n] = SelectSeq(evRules, Hit)
            /\ Len(evOut) = 2 => evOut[1] = evOut[2]

\* Two calls on a list of an ANY rule and an ALL rule of two entries, of
\* which the line matches one and not the other.
C10_Witness ==
    /\ Len(evOut) = 2
    /\ Len(evRules) >= 2
    /\ \A k \in 1..Len(evRules) : WellFormed(evRules[k])
    /\ \E k \in 1..Len(evRules) : evRules[k].match_type = "any"
    /\ \E k \in 1..Len(evRules) :
          evRules[k].match_type = "all" /\ InList(",", evRules[k].regex)
    /\ Len(evOut[1]) >= 1
    /\ Len(evOut[1]) < Len(evRules)

=============================================================================
